---- MODULE Spec2Model ----
(***************************************************************************)
(* A model of the semantic_cache package: SessionCache (in-memory LRU/TTL  *)
(* cache), PersistentCache (Redis adapter), VectorStore (FAISS IndexIDMap  *)
(* over IndexFlatIP, inline mode) and CacheManager (three-tier lookup).    *)
(***************************************************************************)
EXTENDS Integers, Sequences, FiniteSets, TLC

\* ------------------------------------------------------------------ bounds
MaxTime == 2      \* the clock runs over 0..MaxTime
MaxSize == 2      \* SessionCache.max_size of the modelled instance
SessionTTL == 2   \* SessionCache.ttl of the modelled instance
RedisTTL == 2     \* PersistentCache.ttl of the modelled instance
MaxGets == 2      \* cap on hits + misses (the counters are unbounded in the code)
MaxIds == 2       \* cap on VectorStore.next_id (unbounded in the code)
Dim == 2          \* VectorStore.dim of the modelled instance
MaxCalls == 3     \* cap on the calls made to a CacheManager whose collaborators fail
MaxRaceCalls == 4 \* cap on the calls made while gets run beside set and invalidate
Scale == 5        \* length that stands for a unit vector (embeddings are integer vectors)

\* ------------------------------------------------------------- value spaces
None == "None"
Values == {"v1", "v2"}
Queries == {"qa", "qA", "qc"}

\* hashlib.sha256(query.encode()).hexdigest(): a deterministic, injective digest
get_cache_key(query) == <<"sha256", query>>

Keys == {get_cache_key(q) : q \in Queries}
NoKey == <<"sha256", None>>

VARIABLES
  \* SessionCache
  cache,      \* OrderedDict: sequence of [key, value, timestamp], head = oldest position
  max_size, ttl, hits, misses,
  \* PersistentCache: the Redis server's keyspace, key -> [data, expires]
  redis,
  \* VectorStore
  index,      \* IndexIDMap over IndexFlatIP: sequence of [id, vector] in storage order
  key_to_id, id_to_key, next_id,
  \* the clock read by time.time() and by the Redis server
  now,
  \* observation of the last call
  lastOp, lastKey, lastRet,
  lastAge,      \* age of the entry under lastKey before the call, -1 when it held none
  lastFull,     \* whether the cache held max_size entries, all unexpired, before the call
  lastVictim,   \* the key a set dropped for capacity, NoKey when none
  lastLRU,      \* the least-recently-used key before the call, NoKey when empty
  recency,      \* the keys held, ordered by last insertion or last get hit
  \* observation of the last CacheManager call
  lastTier,     \* the tier that answered the last get: 1, 2, 3, or 0 for a miss
  lastSim,      \* the neighbour the last get re-queried Redis with: [key, dist], NoSim when none
  \* history of the CacheManager calls
  lastPre,      \* mon[query] before the last get
  mon,          \* per query: what the calls made so far leave pending (see MonSet)
  stored,       \* the values passed to CacheManager.set so far
  \* the last call with its inputs, as observed by the callers of VectorStore and
  \* of a CacheManager whose Redis or embedding model may fail
  lastCall,
  \* history of the VectorStore calls since the last reset (see NoVsHist)
  vshist,
  \* the CacheManager calls in progress, one per thread (see ThreadIdle)
  threads,
  \* the number of calls made to a CacheManager whose collaborators fail
  calls,
  \* VectorStore.use_subprocess
  use_subprocess,
  \* the store an inline VectorStore holds after the calls made to the isolated
  \* one, and whether every worker so far ended normally (see NoTwin)
  twin,
  \* the queries whose invalidate has returned, no set of the query having been
  \* in progress since that invalidate began and no neighbour's value having been
  \* stored under the query's fingerprint since
  invalidated

scvars == <<cache, max_size, ttl, hits, misses>>
vsvars == <<index, key_to_id, id_to_key, next_id>>
obsvars == <<lastOp, lastKey, lastRet, lastAge, lastFull, lastVictim, lastLRU, recency>>
cmobs == <<lastTier, lastSim>>
histvars == <<lastPre, mon, stored>>
extvars == <<lastCall, vshist, threads, calls, use_subprocess, twin, invalidated>>
vars == <<scvars, redis, vsvars, now, obsvars, cmobs, histvars, extvars>>

\* ---------------------------------------------------------- SessionCache
CacheKeys(c) == {c[i].key : i \in 1..Len(c)}
PosOf(c, key) == CHOOSE i \in 1..Len(c) : c[i].key = key
Entry(c, key) == c[PosOf(c, key)]
Without(c, key) == SelectSeq(c, LAMBDA e : e.key # key)

\* mutant: an existing key keeps the value it had
store_item_keep_old(c, key, value, t) ==
  IF key \in CacheKeys(c) THEN c
  ELSE Append(c, [key |-> key, value |-> value, timestamp |-> t])

\* self.cache[key] = (value, time.time()): a new key is appended, an existing
\* key keeps its position in the OrderedDict
store_item(c, key, value, t) ==
  IF key \in CacheKeys(c)
  THEN [c EXCEPT ![PosOf(c, key)] = [key |-> key, value |-> value, timestamp |-> t]]
  ELSE Append(c, [key |-> key, value |-> value, timestamp |-> t])

\* mutant: the capacity test is off by one
evict_if_full_late(c, max) == IF Len(c) > max + 1 THEN Tail(c) ELSE c

\* if len(self.cache) > self.max_size: self.cache.popitem(last=False)
evict_if_full(c, max) == IF Len(c) > max THEN Tail(c) ELSE c

session_set(c, key, value, t, max) == evict_if_full(store_item(c, key, value, t), max)

\* mutant: an entry of age ttl still counts as fresh
is_fresh_inclusive(t, timestamp, life) == t - timestamp <= life

\* time.time() - timestamp < self.ttl
is_fresh(t, timestamp, life) == t - timestamp < life

\* mutant: the hit leaves the key where it is
move_to_end_skipped(c, key) == c

\* self.cache.move_to_end(key)
move_to_end(c, key) == Append(Without(c, key), Entry(c, key))

\* SessionCache.get: the new cache, the returned value, and the counter increments
session_get(c, key, t, life) ==
  IF key \in CacheKeys(c)
  THEN IF is_fresh(t, Entry(c, key).timestamp, life)
       THEN [cache |-> move_to_end(c, key), ret |-> Entry(c, key).value, hit |-> 1, miss |-> 0]
       ELSE [cache |-> Without(c, key), ret |-> None, hit |-> 0, miss |-> 1]
  ELSE [cache |-> c, ret |-> None, hit |-> 0, miss |-> 1]

\* mutant: the delete is lost
session_delete_lost(c, key) == c

session_delete(c, key) == IF key \in CacheKeys(c) THEN Without(c, key) ELSE c

\* the order a true LRU keeps: keys by last insertion or last get hit
Touch(r, key) == Append(SelectSeq(r, LAMBDA k : k # key), key)
Restrict(r, c) == SelectSeq(r, LAMBDA k : k \in CacheKeys(c))
AgeOf(c, key, t) == IF key \in CacheKeys(c) THEN t - Entry(c, key).timestamp ELSE -1
Observe(key) ==
  /\ lastKey' = key
  /\ lastAge' = AgeOf(cache, key, now)
  /\ lastFull' = (Len(cache) = max_size
                  /\ \A i \in 1..Len(cache) : is_fresh(now, cache[i].timestamp, ttl))
  /\ lastLRU' = IF recency = <<>> THEN NoKey ELSE Head(recency)
  /\ lastVictim' = IF CacheKeys(cache) \ CacheKeys(cache') \subseteq {key} THEN NoKey
                   ELSE CHOOSE k \in CacheKeys(cache) \ CacheKeys(cache') : k # key

\* ------------------------------------------------------- PersistentCache
NoEntry == [data |-> <<>>, expires |-> 0]

\* pickle.dumps / pickle.loads
pickle_dumps(value) == <<"pickle", value>>
pickle_loads(data) == data[2]

\* the Redis server drops a key once its expiry time is reached
redis_expire(r, t) == [k \in DOMAIN r |-> IF r[k].data # <<>> /\ r[k].expires <= t THEN NoEntry ELSE r[k]]

\* mutant: the key is ignored, the value is written under every key
persistent_set_all(r, key, value, t, ok) ==
  [k \in DOMAIN r |-> [data |-> pickle_dumps(value), expires |-> t + RedisTTL]]

\* mutant: the write is dropped
persistent_set_dropped(r, key, value, t, ok) == r

\* PersistentCache.set: client.setex(key, self.ttl, pickle.dumps(value)); an
\* exception (ok = FALSE: Redis did not take the command) is logged and swallowed
persistent_set(r, key, value, t, ok) ==
  IF ok THEN [r EXCEPT ![key] = [data |-> pickle_dumps(value), expires |-> t + RedisTTL]] ELSE r


\* PersistentCache.get: None on a missing key and on an exception
persistent_get(r, key, ok) ==
  IF ok /\ r[key].data # <<>> THEN pickle_loads(r[key].data) ELSE None

\* PersistentCache.delete: an exception is logged and swallowed
persistent_delete(r, key, ok) == IF ok THEN [r EXCEPT ![key] = NoEntry] ELSE r

\* ------------------------------------------------------------- embedding
Pad(xy) == [i \in 1..Dim |-> IF i <= Len(xy) THEN xy[i] ELSE 0]

\* model.encode(query): "qA" is "qa" in another case (the model is uncased, the
\* two embed in the same direction), "qc" is unrelated to both
encode(query) ==
  CASE query = "qa" -> Pad(<<10, 0>>)
    [] query = "qA" -> Pad(<<5, 0>>)
    [] OTHER -> Pad(<<-9, 12>>)

RECURSIVE DotUpTo(_, _, _)
DotUpTo(u, v, n) == IF n = 0 THEN 0 ELSE u[n] * v[n] + DotUpTo(u, v, n - 1)
Dot(u, v) == DotUpTo(u, v, Len(u))
Norm(v) == CHOOSE n \in 0..(Dot(v, v)) : n * n = Dot(v, v)

\* generate_embedding: embedding / (np.linalg.norm(embedding) or 1.0), a unit
\* vector (of length Scale here)
normalize(e) ==
  LET norm == IF Norm(e) = 0 THEN 1 ELSE Norm(e)
  IN [i \in 1..Dim |-> (e[i] * Scale) \div norm]
Embedding == [query \in Queries |-> normalize(encode(query))]
generate_embedding(query) == Embedding[query]

\* ----------------------------------------------------------- VectorStore
\* IndexFlatIP.search(vector, 1): the stored vector of largest inner product,
\* the earliest stored among equals; label -1 on an empty index
faiss_search(ix, vector) ==
  IF ix = <<>> THEN [id |-> -1, dist |-> 0]
  ELSE LET best == CHOOSE i \in 1..Len(ix) :
                     \A j \in 1..Len(ix) :
                        \/ Dot(ix[j].vector, vector) < Dot(ix[i].vector, vector)
                        \/ Dot(ix[j].vector, vector) = Dot(ix[i].vector, vector) /\ i <= j
       IN [id |-> ix[best].id, dist |-> Dot(ix[best].vector, vector)]

\* VectorStore.search (inline): the hits whose id is in id_to_key, as (key, distance)
vector_search(ix, i2k, vector) ==
  LET hit == faiss_search(ix, vector)
  IN IF hit.id \in DOMAIN i2k THEN <<[key |-> i2k[hit.id], dist |-> hit.dist]>> ELSE <<>>

\* VectorStore.search (inline) as its caller sees it: a vector of another length
\* makes index.search raise, which is logged and answered with []
search(ix, i2k, vector) ==
  IF Len(vector) # Dim THEN <<>> ELSE vector_search(ix, i2k, vector)

\* add (inline): add_vector's ValueError for a vector of another length passes
\* through _run_faiss_task and add to the caller
add_raises(vector) == Len(vector) # Dim

\* search (inline): whatever index.search raises is caught and logged
search_raises(vector) == FALSE

\* how the worker process of an isolated call ends: normally, killed after the
\* join timed out, or with a non-zero exit code
Outcomes == {"done", "timeout", "crash"}

\* _run_faiss_task: inline, the method runs on the store itself (after is the
\* store it leaves); isolated, it runs in a multiprocessing.Process on the
\* child's copy of the store, which ends with the child, so the caller's store
\* stays as it was however the child ended
run_faiss_task(vs, after, isolated, outcome) == IF isolated THEN vs ELSE after

\* whether the caller of an isolated call gets an exception: a timeout and a bad
\* exit code are logged, the call returns normally
isolated_raises(outcome) == FALSE

\* search, isolated: search_vectors runs in the child on a copy of the caller's
\* store and appends to a Manager list; the caller returns list(results), which
\* holds the results if the child appended them before it ended (appended)
isolated_search(vs, vector, outcome, appended) ==
  IF outcome = "done" \/ appended THEN search(vs.index, vs.id_to_key, vector) ELSE <<>>

\* the VectorStore's fields as one record
VS == [index |-> index, key_to_id |-> key_to_id, id_to_key |-> id_to_key,
       next_id |-> next_id]

\* mutant: the id counter moves only when the vector is stored
add_vector_reusing(vs, key, vector, ok) ==
  IF Len(vector) # Dim \/ ~ok THEN vs
  ELSE [index |-> Append(vs.index, [id |-> vs.next_id, vector |-> vector]),
        key_to_id |-> (key :> vs.next_id) @@ vs.key_to_id,
        id_to_key |-> (vs.next_id :> key) @@ vs.id_to_key,
        next_id |-> vs.next_id + 1]

\* VectorStore.add_vector: a vector of another length raises before anything
\* changes; otherwise cur_id = next_id is taken and next_id incremented, then
\* add_with_ids stores the vector and both mappings are written, or add_with_ids
\* raises (~ok), which is logged, and nothing else changes
add_vector(vs, key, vector, ok) ==
  IF Len(vector) # Dim THEN vs
  ELSE IF ~ok THEN [vs EXCEPT !.next_id = vs.next_id + 1]
  ELSE [index |-> Append(vs.index, [id |-> vs.next_id, vector |-> vector]),
        key_to_id |-> (key :> vs.next_id) @@ vs.key_to_id,
        id_to_key |-> (vs.next_id :> key) @@ vs.id_to_key,
        next_id |-> vs.next_id + 1]

\* VectorStore.delete_vector: nothing for an unknown key; otherwise remove_ids
\* drops the vector stored under key_to_id[key] and both mapping entries are
\* deleted, or remove_ids raises (~ok), which is logged, and nothing changes
delete_vector(vs, key, ok) ==
  IF key \notin DOMAIN vs.key_to_id \/ ~ok THEN vs
  ELSE LET id_to_remove == vs.key_to_id[key]
       IN [index |-> SelectSeq(vs.index, LAMBDA e : e.id # id_to_remove),
           key_to_id |-> [k \in DOMAIN vs.key_to_id \ {key} |-> vs.key_to_id[k]],
           id_to_key |-> [i \in DOMAIN vs.id_to_key \ {id_to_remove} |-> vs.id_to_key[i]],
           next_id |-> vs.next_id]

\* mutant: the reset keeps the id-to-key mapping
reset_index_process_partial(vs) ==
  [index |-> <<>>, key_to_id |-> <<>>, id_to_key |-> vs.id_to_key, next_id |-> 0]

\* VectorStore.reset_index_process: a new empty index, both mappings cleared,
\* next_id = 0
reset_index_process(vs) ==
  [index |-> <<>>, key_to_id |-> <<>>, id_to_key |-> <<>>, next_id |-> 0]

\* ---------------------------------------------------------- CacheManager
Threads == {"t1", "t2"}

\* no call observed; the fields a call does not use keep these values
\* (held: the number of vectors in the index before a reset; searched: whether
\* a get called vector_store.search)
\* (raised: whether the call raised to its caller; outcome: how the worker of
\* an isolated call ended; expected: what the search of an inline store answers;
\* after: whether a get began after an invalidate of its query had returned)
NoCall == [op |-> "none", query |-> None, key |-> NoKey, value |-> None,
           vector |-> <<>>, rOk |-> TRUE, eOk |-> TRUE, vOk |-> TRUE, held |-> 0,
           searched |-> FALSE, raised |-> FALSE, outcome |-> "done",
           expected |-> <<>>, after |-> FALSE]

\* VectorStore history: the ids taken by add_vector since the last reset, in
\* order; the keys deleted and not added since; per key, the vectors it was
\* added with; the key of the add that was the last call before the searches
\* that followed it, if it stored its vector
NoAdd == [key |-> NoKey, vector |-> <<>>]
NoVsHist == [allocated |-> <<>>, removed |-> {}, addedWith |-> [k \in Keys |-> {}],
             lastAdd |-> NoAdd]

\* the inline store before any call, every worker having ended normally
NoTwin == [store |-> [index |-> <<>>, key_to_id |-> <<>>, id_to_key |-> <<>>,
                      next_id |-> 0],
           clean |-> TRUE]

\* a thread that is in no CacheManager call
\* (sim_key: the neighbour a get found; after: the get began after an
\* invalidate of its query had returned; alone: no set of the query has been in
\* progress since the invalidate began)
ThreadIdle == [op |-> "idle", query |-> None, value |-> None, step |-> 0, cur_id |-> -1,
               sim_key |-> NoKey, after |-> FALSE, alone |-> TRUE]

NoSim == [key |-> NoKey, dist |-> 0]
NoMon == [s |-> "never", v |-> None, sem |-> "none", semKey |-> NoKey]

\* config.SIMILARITY_THRESHOLD = 0.5 on inner-product scores (higher is closer):
\* score >= 0.5, with scores scaled by Scale * Scale
SIMILARITY_THRESHOLD_PERCENT == 50
WithinThreshold(dist) == 100 * dist >= SIMILARITY_THRESHOLD_PERCENT * Scale * Scale

\* mutant: a failed embedding does not end the lookup
manager_get_fallthrough(query, rOk1, eOk, rOk2) ==
  LET key == get_cache_key(query)
      r1 == session_get(cache, key, now, ttl)
      r2 == persistent_get(redis, key, rOk1)
      similar_entries == vector_search(index, id_to_key, generate_embedding(query))
      r3 == IF similar_entries = <<>> THEN None
            ELSE persistent_get(redis, similar_entries[1].key, rOk2)
  IN IF r1.ret # None
     THEN [cache |-> r1.cache, ret |-> r1.ret, tier |-> 1, sim |-> NoSim,
           searched |-> FALSE]
     ELSE IF r2 # None
     THEN [cache |-> session_set(r1.cache, key, r2, now, max_size), ret |-> r2,
           tier |-> 2, sim |-> NoSim, searched |-> FALSE]
     ELSE IF similar_entries = <<>>
     THEN [cache |-> r1.cache, ret |-> None, tier |-> 0, sim |-> NoSim,
           searched |-> TRUE]
     ELSE IF r3 # None
     THEN [cache |-> session_set(r1.cache, key, r3, now, max_size), ret |-> r3,
           tier |-> 3, sim |-> similar_entries[1], searched |-> TRUE]
     ELSE [cache |-> r1.cache, ret |-> None, tier |-> 0, sim |-> similar_entries[1],
           searched |-> TRUE]

\* mutant: the semantic hit is backfilled under the fingerprint it was found under
manager_get_neighbour_key(query, rOk1, eOk, rOk2) ==
  LET key == get_cache_key(query)
      r1 == session_get(cache, key, now, ttl)
      r2 == persistent_get(redis, key, rOk1)
      similar_entries == vector_search(index, id_to_key, generate_embedding(query))
      r3 == IF similar_entries = <<>> THEN None
            ELSE persistent_get(redis, similar_entries[1].key, rOk2)
  IN IF r1.ret # None
     THEN [cache |-> r1.cache, ret |-> r1.ret, tier |-> 1, sim |-> NoSim,
           searched |-> FALSE]
     ELSE IF r2 # None
     THEN [cache |-> session_set(r1.cache, key, r2, now, max_size), ret |-> r2,
           tier |-> 2, sim |-> NoSim, searched |-> FALSE]
     ELSE IF ~eOk
     THEN [cache |-> r1.cache, ret |-> None, tier |-> 0, sim |-> NoSim,
           searched |-> FALSE]
     ELSE IF similar_entries = <<>>
     THEN [cache |-> r1.cache, ret |-> None, tier |-> 0, sim |-> NoSim,
           searched |-> TRUE]
     ELSE IF r3 # None
     THEN [cache |-> session_set(r1.cache, similar_entries[1].key, r3, now, max_size),
           ret |-> r3,
           tier |-> 3, sim |-> similar_entries[1], searched |-> TRUE]
     ELSE [cache |-> r1.cache, ret |-> None, tier |-> 0, sim |-> similar_entries[1],
           searched |-> TRUE]

\* CacheManager.get: the session cache after the call, the value returned, the
\* tier that answered and the neighbour re-queried, given whether Redis answers
\* the exact read (rOk1) and the neighbour read (rOk2) and whether the embedding
\* is generated (eOk); searched: whether vector_store.search was called
manager_get(query, rOk1, eOk, rOk2) ==
  LET key == get_cache_key(query)
      r1 == session_get(cache, key, now, ttl)
      r2 == persistent_get(redis, key, rOk1)
      similar_entries == vector_search(index, id_to_key, generate_embedding(query))
      r3 == IF similar_entries = <<>> THEN None
            ELSE persistent_get(redis, similar_entries[1].key, rOk2)
  IN IF r1.ret # None
     THEN [cache |-> r1.cache, ret |-> r1.ret, tier |-> 1, sim |-> NoSim,
           searched |-> FALSE]
     ELSE IF r2 # None
     THEN [cache |-> session_set(r1.cache, key, r2, now, max_size), ret |-> r2,
           tier |-> 2, sim |-> NoSim, searched |-> FALSE]
     ELSE IF ~eOk
     THEN [cache |-> r1.cache, ret |-> None, tier |-> 0, sim |-> NoSim,
           searched |-> FALSE]
     ELSE IF similar_entries = <<>>
     THEN [cache |-> r1.cache, ret |-> None, tier |-> 0, sim |-> NoSim,
           searched |-> TRUE]
     ELSE IF r3 # None
     THEN [cache |-> session_set(r1.cache, key, r3, now, max_size), ret |-> r3,
           tier |-> 3, sim |-> similar_entries[1], searched |-> TRUE]
     ELSE [cache |-> r1.cache, ret |-> None, tier |-> 0, sim |-> similar_entries[1],
           searched |-> TRUE]

Constructed ==
  /\ cache = <<>>
  /\ max_size = MaxSize
  /\ ttl = SessionTTL
  /\ hits = 0 /\ misses = 0
  /\ redis = [k \in Keys |-> NoEntry]
  /\ index = <<>> /\ key_to_id = <<>> /\ id_to_key = <<>> /\ next_id = 0
  /\ now = 0
  /\ lastOp = "idle" /\ lastKey = NoKey /\ lastRet = None
  /\ lastAge = -1 /\ lastFull = FALSE /\ lastVictim = NoKey /\ lastLRU = NoKey
  /\ recency = <<>>
  /\ lastTier = 0 /\ lastSim = NoSim
  /\ lastPre = NoMon
  /\ mon = [q \in Queries |-> NoMon]
  /\ stored = {}
  /\ lastCall = NoCall
  /\ vshist = NoVsHist
  /\ threads = [t \in Threads |-> ThreadIdle]
  /\ calls = 0
  /\ twin = NoTwin
  /\ invalidated = {}

\* VectorStore() as the package and its tests construct it
Init == Constructed /\ use_subprocess = FALSE

\* no call is observed
Unobserved ==
  /\ lastOp' = "idle" /\ lastKey' = NoKey /\ lastRet' = None
  /\ lastAge' = -1 /\ lastFull' = FALSE /\ lastVictim' = NoKey /\ lastLRU' = NoKey
  /\ lastTier' = 0 /\ lastSim' = NoSim

\* time passes: the clock advances and Redis drops the keys that expire
Tick ==
  /\ now < MaxTime
  /\ now' = now + 1
  /\ redis' = redis_expire(redis, now')
  /\ Unobserved
  /\ UNCHANGED <<scvars, vsvars, recency>>

\* ------------------------------------------------- SessionCache, on its own
SessionCacheSet(key, value) ==
  /\ cache' = session_set(cache, key, value, now, max_size)
  /\ lastOp' = "set" /\ lastRet' = None
  /\ Observe(key)
  /\ recency' = Restrict(Touch(recency, key), cache')
  /\ UNCHANGED <<max_size, ttl, hits, misses, now, redis, vsvars, cmobs>>

SessionCacheGet(key) ==
  /\ hits + misses < MaxGets
  /\ LET r == session_get(cache, key, now, ttl) IN
       /\ cache' = r.cache
       /\ hits' = hits + r.hit
       /\ misses' = misses + r.miss
       /\ lastRet' = r.ret
       /\ recency' = Restrict(IF r.hit = 1 THEN Touch(recency, key) ELSE recency, r.cache)
  /\ lastOp' = "get"
  /\ Observe(key)
  /\ UNCHANGED <<max_size, ttl, now, redis, vsvars, cmobs>>

SessionCacheDelete(key) ==
  /\ cache' = session_delete(cache, key)
  /\ lastOp' = "delete" /\ lastKey' = key /\ lastRet' = None
  /\ lastAge' = -1 /\ lastFull' = FALSE /\ lastVictim' = NoKey /\ lastLRU' = NoKey
  /\ recency' = Restrict(recency, cache')
  /\ UNCHANGED <<max_size, ttl, hits, misses, now, redis, vsvars, cmobs>>

SessionNext ==
  \/ Tick /\ UNCHANGED <<histvars, extvars>>
  \/ \E key \in Keys, value \in Values :
       SessionCacheSet(key, value) /\ UNCHANGED <<histvars, extvars>>
  \/ \E key \in Keys : SessionCacheGet(key) /\ UNCHANGED <<histvars, extvars>>
  \/ \E key \in Keys : SessionCacheDelete(key) /\ UNCHANGED <<histvars, extvars>>

SessionSpec == Init /\ [][SessionNext]_vars

\* ------------------------------------------------- CacheManager's calls
\* VectorStore.add -> add_vector (inline): a dimension mismatch raises before
\* anything changes; otherwise the next id is taken, the vector stored and both
\* mappings written
SetStore(vs) ==
  /\ index' = vs.index /\ key_to_id' = vs.key_to_id
  /\ id_to_key' = vs.id_to_key /\ next_id' = vs.next_id

VectorStoreAdd(key, vector) == SetStore(add_vector(VS, key, vector, TRUE))

NoSessionObserved ==
  /\ lastAge' = -1 /\ lastFull' = FALSE /\ lastVictim' = NoKey /\ lastLRU' = NoKey
  /\ UNCHANGED recency

CacheManagerGet(query, rOk1, eOk, rOk2) ==
  /\ hits + misses < MaxGets
  /\ LET r == manager_get(query, rOk1, eOk, rOk2)
         r1 == session_get(cache, get_cache_key(query), now, ttl)
     IN /\ cache' = r.cache
        /\ hits' = hits + r1.hit
        /\ misses' = misses + r1.miss
        /\ lastRet' = r.ret
        /\ lastTier' = r.tier
        /\ lastSim' = r.sim
  /\ lastOp' = "get" /\ lastKey' = get_cache_key(query)
  /\ NoSessionObserved
  /\ UNCHANGED <<max_size, ttl, redis, vsvars, now>>

\* CacheManager.set; rOk: the Redis write succeeds, eOk: the embedding is
\* generated, vOk: add_with_ids does not raise
CacheManagerSetCall(query, value, rOk, eOk, vOk) ==
  /\ eOk => next_id < MaxIds
  /\ cache' = session_set(cache, get_cache_key(query), value, now, max_size)
  /\ redis' = persistent_set(redis, get_cache_key(query), value, now, rOk)
  /\ IF eOk
     THEN SetStore(add_vector(VS, get_cache_key(query), generate_embedding(query), vOk))
     ELSE UNCHANGED vsvars
  /\ Unobserved
  /\ UNCHANGED <<max_size, ttl, hits, misses, now, recency>>

CacheManagerSet(query, value, rOk, eOk) == CacheManagerSetCall(query, value, rOk, eOk, TRUE)

CacheManagerInvalidate(query, rOk) ==
  /\ redis' = persistent_delete(redis, get_cache_key(query), rOk)
  /\ cache' = session_delete(cache, get_cache_key(query))
  /\ Unobserved
  /\ UNCHANGED <<max_size, ttl, hits, misses, vsvars, now, recency>>

\* ---------------------------------------------------------------- history
\* what the calls so far leave pending for each query:
\*   s    "never" (never passed to set), "set" (set and stored in Redis, not read
\*        or invalidated since), "inval" (invalidated and deleted from Redis after
\*        a set, not read or set since), "got" (nothing pending)
\*   v    the value of that set
\*   sem  "hit": the last get of the query was answered by the semantic tier
\*        through semKey, a neighbour within the threshold; "stale": and semKey's
\*        query has been invalidated (Redis took the delete) since
MonSet(query, value, rOk) ==
  [q \in Queries |->
     IF q = query
     THEN [s |-> IF rOk THEN "set" ELSE "got", v |-> IF rOk THEN value ELSE None,
           sem |-> "none", semKey |-> NoKey]
     ELSE IF mon[q].semKey = get_cache_key(query)
     THEN [mon[q] EXCEPT !.sem = "none", !.semKey = NoKey]
     ELSE mon[q]]

MonGet(query, tier, sim) ==
  [mon EXCEPT ![query] =
     [s |-> IF mon[query].s = "never" THEN "never" ELSE "got",
      v |-> None,
      sem |-> IF tier = 3 /\ WithinThreshold(sim.dist) THEN "hit" ELSE "none",
      semKey |-> IF tier = 3 /\ WithinThreshold(sim.dist) THEN sim.key ELSE NoKey]]

MonInvalidate(query, rOk) ==
  [q \in Queries |->
     IF q = query
     THEN [s |-> IF mon[q].s = "never" THEN "never" ELSE IF rOk THEN "inval" ELSE "got",
           v |-> None, sem |-> "none", semKey |-> NoKey]
     ELSE IF mon[q].semKey = get_cache_key(query)
     THEN IF rOk /\ mon[q].sem = "hit" THEN [mon[q] EXCEPT !.sem = "stale"]
          ELSE [mon[q] EXCEPT !.sem = "none", !.semKey = NoKey]
     ELSE mon[q]]

HistGet(query) ==
  /\ lastPre' = mon[query]
  /\ mon' = MonGet(query, lastTier', lastSim')
  /\ UNCHANGED stored

HistSet(query, value, rOk) ==
  /\ lastPre' = NoMon
  /\ mon' = MonSet(query, value, rOk)
  /\ stored' = stored \cup {value}

HistInvalidate(query, rOk) ==
  /\ lastPre' = NoMon
  /\ mon' = MonInvalidate(query, rOk)
  /\ UNCHANGED stored

HistIdle == lastPre' = NoMon /\ UNCHANGED <<mon, stored>>

\* the calls of a CacheManager whose Redis and embedding model answer every call
Next ==
  \/ Tick /\ HistIdle /\ UNCHANGED extvars
  \/ \E query \in Queries :
       CacheManagerGet(query, TRUE, TRUE, TRUE) /\ HistGet(query) /\ UNCHANGED extvars
  \/ \E query \in Queries, value \in Values :
       /\ CacheManagerSet(query, value, TRUE, TRUE) /\ HistSet(query, value, TRUE)
       /\ UNCHANGED extvars
  \/ \E query \in Queries :
       /\ CacheManagerInvalidate(query, TRUE) /\ HistInvalidate(query, TRUE)
       /\ UNCHANGED extvars

Spec == Init /\ [][Next]_vars

\* ------------------------------------------------- VectorStore, on its own
\* the vectors its callers pass: the unit embeddings, a longer vector and a
\* vector of another length
Vectors == {Embedding[q] : q \in Queries} \cup {Pad(<<2 * Scale, 0>>), <<Scale>>}

\* VectorStore.add(key, vector); ok: add_with_ids does not raise
VectorStoreAddCall(key, vector, ok) ==
  /\ next_id < MaxIds
  /\ SetStore(add_vector(VS, key, vector, ok))
  /\ lastCall' = [NoCall EXCEPT !.op = "add", !.key = key, !.vector = vector, !.vOk = ok,
                                 !.raised = add_raises(vector)]
  /\ vshist' =
       IF Len(vector) # Dim THEN [vshist EXCEPT !.lastAdd = NoAdd]
       ELSE IF ~ok
       THEN [vshist EXCEPT !.allocated = Append(@, next_id), !.lastAdd = NoAdd]
       ELSE [allocated |-> Append(vshist.allocated, next_id),
             removed |-> vshist.removed \ {key},
             addedWith |-> [vshist.addedWith EXCEPT ![key] = @ \cup {vector}],
             lastAdd |-> [key |-> key, vector |-> vector]]
  /\ lastSim' = NoSim

\* VectorStore.delete(key); ok: remove_ids does not raise
VectorStoreDelete(key, ok) ==
  /\ SetStore(delete_vector(VS, key, ok))
  /\ lastCall' = [NoCall EXCEPT !.op = "delete", !.key = key, !.vOk = ok]
  /\ vshist' = [vshist EXCEPT
                  !.removed = IF ok /\ key \in DOMAIN key_to_id THEN @ \cup {key} ELSE @,
                  !.lastAdd = NoAdd]
  /\ lastSim' = NoSim

\* VectorStore.search(vector, top_k=1)
VectorStoreSearch(vector) ==
  /\ lastSim' = LET results == search(index, id_to_key, vector)
                IN IF results = <<>> THEN NoSim ELSE results[1]
  /\ lastCall' = [NoCall EXCEPT !.op = "search", !.vector = vector,
                                 !.raised = search_raises(vector)]
  /\ UNCHANGED <<vsvars, vshist>>

\* VectorStore.reset_index()
VectorStoreReset ==
  /\ SetStore(reset_index_process(VS))
  /\ lastCall' = [NoCall EXCEPT !.op = "reset", !.held = Len(index)]
  /\ vshist' = NoVsHist
  /\ lastSim' = NoSim

VectorFrame ==
  UNCHANGED <<scvars, redis, now, obsvars, lastTier, histvars, threads, calls,
              use_subprocess, twin, invalidated>>

VectorNext ==
  \/ \E key \in Keys, vector \in Vectors, ok \in BOOLEAN :
       VectorStoreAddCall(key, vector, ok) /\ VectorFrame
  \/ \E key \in Keys, ok \in BOOLEAN : VectorStoreDelete(key, ok) /\ VectorFrame
  \/ \E vector \in Vectors : VectorStoreSearch(vector) /\ VectorFrame
  \/ VectorStoreReset /\ VectorFrame

VectorSpec == Init /\ [][VectorNext]_vars

\* ------------ VectorStore(use_subprocess=True): every call runs in a worker
IsolatedInit == Constructed /\ use_subprocess = TRUE

\* add_vector and search_vectors raise ValueError in the worker for a vector of
\* another length, which ends it with exit code 1
worker_ends(vector, outcome) == Len(vector) # Dim => outcome = "crash"

\* the same call made to an inline store
Twin(after, outcome) ==
  twin' = [store |-> after, clean |-> twin.clean /\ outcome = "done"]

\* VectorStore.add(key, vector) with use_subprocess
IsolatedAdd(key, vector, outcome) ==
  /\ twin.store.next_id < MaxIds
  /\ worker_ends(vector, outcome)
  /\ SetStore(run_faiss_task(VS, add_vector(VS, key, vector, TRUE), use_subprocess, outcome))
  /\ lastCall' = [NoCall EXCEPT !.op = "add", !.key = key, !.vector = vector,
                                 !.outcome = outcome, !.raised = isolated_raises(outcome)]
  /\ Twin(add_vector(twin.store, key, vector, TRUE), outcome)
  /\ lastSim' = NoSim

\* VectorStore.delete(key) with use_subprocess
IsolatedDelete(key, outcome) ==
  /\ SetStore(run_faiss_task(VS, delete_vector(VS, key, TRUE), use_subprocess, outcome))
  /\ lastCall' = [NoCall EXCEPT !.op = "delete", !.key = key,
                                 !.outcome = outcome, !.raised = isolated_raises(outcome)]
  /\ Twin(delete_vector(twin.store, key, TRUE), outcome)
  /\ lastSim' = NoSim

\* VectorStore.search(vector, top_k=1) with use_subprocess
IsolatedSearch(vector, outcome, appended) ==
  /\ worker_ends(vector, outcome)
  /\ lastSim' = LET results == isolated_search(VS, vector, outcome, appended)
                IN IF results = <<>> THEN NoSim ELSE results[1]
  /\ lastCall' = [NoCall EXCEPT !.op = "search", !.vector = vector,
                                 !.outcome = outcome, !.raised = isolated_raises(outcome),
                                 !.expected = search(twin.store.index,
                                                     twin.store.id_to_key, vector)]
  /\ Twin(twin.store, outcome)
  /\ UNCHANGED vsvars

\* VectorStore.reset_index() with use_subprocess
IsolatedReset(outcome) ==
  /\ SetStore(run_faiss_task(VS, reset_index_process(VS), use_subprocess, outcome))
  /\ lastCall' = [NoCall EXCEPT !.op = "reset", !.held = Len(index),
                                 !.outcome = outcome, !.raised = isolated_raises(outcome)]
  /\ Twin(reset_index_process(twin.store), outcome)
  /\ lastSim' = NoSim

IsolatedFrame ==
  UNCHANGED <<scvars, redis, now, obsvars, lastTier, histvars, threads, calls,
              use_subprocess, vshist, invalidated>>

IsolatedNext ==
  \/ \E key \in Keys, vector \in Vectors, outcome \in Outcomes :
       IsolatedAdd(key, vector, outcome) /\ IsolatedFrame
  \/ \E key \in Keys, outcome \in Outcomes : IsolatedDelete(key, outcome) /\ IsolatedFrame
  \/ \E vector \in Vectors, outcome \in Outcomes, appended \in BOOLEAN :
       IsolatedSearch(vector, outcome, appended) /\ IsolatedFrame
  \/ \E outcome \in Outcomes : IsolatedReset(outcome) /\ IsolatedFrame

IsolatedSpec == IsolatedInit /\ [][IsolatedNext]_vars

\* ------------ CacheManager whose Redis, embedding model and index may fail
\* every Redis call may raise inside PersistentCache (rOk), the embedding model
\* may fail (eOk) and add_with_ids may raise (vOk)
FaultFrame == UNCHANGED <<histvars, vshist, threads, use_subprocess, twin, invalidated>>

FaultCall == calls' = calls + 1 /\ FaultFrame

FaultNext ==
  \/ Tick /\ lastCall' = NoCall /\ FaultFrame /\ UNCHANGED calls
  \/ \E query \in Queries, rOk1, eOk, rOk2 \in BOOLEAN :
       /\ calls < MaxCalls
       /\ CacheManagerGet(query, rOk1, eOk, rOk2)
       /\ lastCall' = [NoCall EXCEPT !.op = "get", !.query = query, !.rOk = rOk1,
                         !.eOk = eOk,
                         !.searched = manager_get(query, rOk1, eOk, rOk2).searched]
       /\ FaultCall
  \/ \E query \in Queries, value \in Values, rOk, eOk, vOk \in BOOLEAN :
       /\ calls < MaxCalls
       /\ ~eOk => vOk
       /\ CacheManagerSetCall(query, value, rOk, eOk, vOk)
       /\ lastCall' = [NoCall EXCEPT !.op = "set", !.query = query, !.value = value,
                         !.rOk = rOk, !.eOk = eOk, !.vOk = vOk]
       /\ FaultCall
  \/ \E query \in Queries, rOk \in BOOLEAN :
       /\ calls < MaxCalls
       /\ CacheManagerInvalidate(query, rOk)
       /\ lastCall' = [NoCall EXCEPT !.op = "invalidate", !.query = query, !.rOk = rOk]
       /\ FaultCall

FaultSpec == Init /\ [][FaultNext]_vars

\* ------------------------------- CacheManager called by concurrent threads
\* CacheManager takes no lock: a call is a sequence of calls into SessionCache
\* (each under SessionCache.lock), Redis (each atomic in the server) and
\* VectorStore, and the calls of two threads interleave between them.
InSet(t) == threads[t].op = "set" /\ threads[t].step < 3

\* a set of the query is between its first line and its return
SetInProgress(query) == \E u \in Threads : threads[u].op = "set" /\ threads[u].query = query

\* set, line 103: self.session_cache.set(key, value)
SetSession(t, query, value) ==
  /\ threads[t] = ThreadIdle
  /\ next_id + Cardinality({u \in Threads : InSet(u)}) < MaxIds
  /\ cache' = session_set(cache, get_cache_key(query), value, now, max_size)
  /\ threads' = [u \in Threads |->
                   IF u = t
                   THEN [ThreadIdle EXCEPT !.op = "set", !.query = query,
                                           !.value = value, !.step = 1]
                   ELSE IF threads[u].op = "invalidate" /\ threads[u].query = query
                   THEN [threads[u] EXCEPT !.alone = FALSE]
                   ELSE threads[u]]
  /\ UNCHANGED <<redis, vsvars>>

\* set, line 104: self.persistent_cache.set(key, value)
SetPersistent(t) ==
  /\ threads[t].op = "set" /\ threads[t].step = 1
  /\ redis' = persistent_set(redis, get_cache_key(threads[t].query), threads[t].value,
                             now, TRUE)
  /\ threads' = [threads EXCEPT ![t].step = 2]
  /\ UNCHANGED <<cache, vsvars>>

\* set, lines 110-111, add_vector lines 64-65: cur_id = self.next_id; self.next_id += 1
SetTakeId(t) ==
  /\ threads[t].op = "set" /\ threads[t].step = 2
  /\ next_id' = next_id + 1
  /\ threads' = [threads EXCEPT ![t].step = 3, ![t].cur_id = next_id]
  /\ UNCHANGED <<cache, redis, index, key_to_id, id_to_key>>

\* add_vector lines 67-69: add_with_ids and the two mappings; set returns
SetAddVector(t) ==
  /\ threads[t].op = "set" /\ threads[t].step = 3
  /\ LET key == get_cache_key(threads[t].query)
         cur_id == threads[t].cur_id
     IN /\ index' = Append(index, [id |-> cur_id,
                                   vector |-> generate_embedding(threads[t].query)])
        /\ key_to_id' = (key :> cur_id) @@ key_to_id
        /\ id_to_key' = (cur_id :> key) @@ id_to_key
  /\ threads' = [threads EXCEPT ![t] = ThreadIdle]
  /\ UNCHANGED <<cache, redis, next_id>>

\* invalidate, line 126: self.persistent_cache.delete(key)
InvalidatePersistent(t, query) ==
  /\ threads[t] = ThreadIdle
  /\ redis' = persistent_delete(redis, get_cache_key(query), TRUE)
  /\ threads' = [threads EXCEPT ![t] = [ThreadIdle EXCEPT !.op = "invalidate",
                                                         !.query = query, !.step = 1,
                                                         !.alone = ~SetInProgress(query)]]
  /\ UNCHANGED <<cache, vsvars>>

\* invalidate, line 127: self.session_cache.delete(key); invalidate returns
InvalidateSession(t) ==
  /\ threads[t].op = "invalidate" /\ threads[t].step = 1
  /\ cache' = session_delete(cache, get_cache_key(threads[t].query))
  /\ threads' = [threads EXCEPT ![t] = ThreadIdle]
  /\ UNCHANGED <<redis, vsvars>>

ConcFrame ==
  UNCHANGED <<max_size, ttl, hits, misses, now, obsvars, cmobs, histvars,
              lastCall, vshist, calls, use_subprocess, twin, invalidated>>

ConcNext ==
  \/ \E t \in Threads, query \in Queries, value \in Values :
       SetSession(t, query, value) /\ ConcFrame
  \/ \E t \in Threads : SetPersistent(t) /\ ConcFrame
  \/ \E t \in Threads : SetTakeId(t) /\ ConcFrame
  \/ \E t \in Threads : SetAddVector(t) /\ ConcFrame
  \/ \E t \in Threads, query \in Queries : InvalidatePersistent(t, query) /\ ConcFrame
  \/ \E t \in Threads : InvalidateSession(t) /\ ConcFrame

ConcSpec == Init /\ [][ConcNext]_vars

\* ------------ CacheManager.get running beside set and invalidate
\* get returns ret to its caller, from tier
GetReturns(t, ret, tier) ==
  /\ threads' = [threads EXCEPT ![t] = ThreadIdle]
  /\ lastOp' = "get" /\ lastKey' = get_cache_key(threads[t].query)
  /\ lastRet' = ret /\ lastTier' = tier
  /\ lastCall' = [NoCall EXCEPT !.op = "get", !.query = threads[t].query,
                     !.after = threads[t].after /\ threads[t].query \in invalidated]

GetGoesOn == UNCHANGED <<lastOp, lastKey, lastRet, lastTier, lastCall>>

\* get, lines 58-61: self.session_cache.get(key); a hit returns
GetSession(t, query) ==
  /\ hits + misses < MaxGets
  /\ threads[t] = ThreadIdle
  /\ LET r1 == session_get(cache, get_cache_key(query), now, ttl)
     IN /\ cache' = r1.cache
        /\ hits' = hits + r1.hit
        /\ misses' = misses + r1.miss
        /\ IF r1.ret # None
           THEN /\ threads' = [threads EXCEPT ![t] = ThreadIdle]
                /\ lastOp' = "get" /\ lastKey' = get_cache_key(query)
                /\ lastRet' = r1.ret /\ lastTier' = 1
                /\ lastCall' = [NoCall EXCEPT !.op = "get", !.query = query,
                                   !.after = query \in invalidated]
           ELSE /\ threads' = [threads EXCEPT ![t] =
                                 [ThreadIdle EXCEPT !.op = "get", !.query = query,
                                    !.step = 1, !.after = query \in invalidated]]
                /\ GetGoesOn
  /\ UNCHANGED <<redis, vsvars>>

\* get, line 64: self.persistent_cache.get(key)
GetPersistent(t) ==
  /\ threads[t].op = "get" /\ threads[t].step = 1
  /\ LET value == persistent_get(redis, get_cache_key(threads[t].query), TRUE)
     IN threads' = [threads EXCEPT ![t].value = value,
                                   ![t].step = IF value # None THEN 2 ELSE 3]
  /\ GetGoesOn
  /\ UNCHANGED <<cache, hits, misses, redis, vsvars>>

\* get, lines 67-68 and 84-85: self.session_cache.set(key, value); get returns
GetBackfill(t) ==
  /\ threads[t].op = "get" /\ threads[t].step = 2
  /\ cache' = session_set(cache, get_cache_key(threads[t].query), threads[t].value,
                           now, max_size)
  /\ GetReturns(t, threads[t].value, IF threads[t].sim_key = NoKey THEN 2 ELSE 3)
  /\ UNCHANGED <<hits, misses, redis, vsvars>>

\* get, lines 71-79: the embedding and self.vector_store.search(embedding, top_k=1)
GetSearch(t) ==
  /\ threads[t].op = "get" /\ threads[t].step = 3
  /\ LET similar_entries ==
           vector_search(index, id_to_key, generate_embedding(threads[t].query))
     IN IF similar_entries = <<>>
        THEN GetReturns(t, None, 0)
        ELSE /\ threads' = [threads EXCEPT ![t].sim_key = similar_entries[1].key,
                                           ![t].step = 4]
             /\ GetGoesOn
  /\ UNCHANGED <<cache, hits, misses, redis, vsvars>>

\* get, lines 80-82: self.persistent_cache.get(sim_key); nothing found returns None
GetNeighbour(t) ==
  /\ threads[t].op = "get" /\ threads[t].step = 4
  /\ LET value == persistent_get(redis, threads[t].sim_key, TRUE)
     IN IF value = None
        THEN GetReturns(t, None, 0)
        ELSE /\ threads' = [threads EXCEPT ![t].value = value, ![t].step = 2]
             /\ GetGoesOn
  /\ UNCHANGED <<cache, hits, misses, redis, vsvars>>

ReaderFrame ==
  UNCHANGED <<max_size, ttl, now, lastAge, lastFull, lastVictim, lastLRU, recency,
              lastSim, histvars, vshist, use_subprocess, twin>>

\* a call begins (the behaviours checked make MaxRaceCalls calls) or goes on
CallBegins == calls' = calls + 1
CallGoesOn == UNCHANGED <<calls, invalidated>>

WriterFrame ==
  UNCHANGED <<hits, misses, lastOp, lastKey, lastRet, lastTier, lastCall>> /\ ReaderFrame

ReaderNext ==
  \/ \E t \in Threads, query \in Queries :
       /\ calls < MaxRaceCalls
       /\ GetSession(t, query) /\ CallBegins /\ UNCHANGED invalidated /\ ReaderFrame
  \/ \E t \in Threads : GetPersistent(t) /\ CallGoesOn /\ ReaderFrame
  \/ \E t \in Threads :
       /\ GetBackfill(t)
       /\ invalidated' = IF threads[t].sim_key = NoKey THEN invalidated
                          ELSE invalidated \ {threads[t].query}
       /\ UNCHANGED calls /\ ReaderFrame
  \/ \E t \in Threads : GetSearch(t) /\ CallGoesOn /\ ReaderFrame
  \/ \E t \in Threads : GetNeighbour(t) /\ CallGoesOn /\ ReaderFrame
  \/ \E t \in Threads, query \in Queries, value \in Values :
       /\ calls < MaxRaceCalls
       /\ SetSession(t, query, value) /\ CallBegins
       /\ invalidated' = invalidated \ {query} /\ WriterFrame
  \/ \E t \in Threads : SetPersistent(t) /\ CallGoesOn /\ WriterFrame
  \/ \E t \in Threads : SetTakeId(t) /\ CallGoesOn /\ WriterFrame
  \/ \E t \in Threads : SetAddVector(t) /\ CallGoesOn /\ WriterFrame
  \/ \E t \in Threads, query \in Queries :
       /\ calls < MaxRaceCalls
       /\ InvalidatePersistent(t, query) /\ CallBegins
       /\ UNCHANGED invalidated /\ WriterFrame
  \/ \E t \in Threads :
       /\ InvalidateSession(t)
       /\ invalidated' = IF threads[t].alone THEN invalidated \cup {threads[t].query}
                          ELSE invalidated
       /\ UNCHANGED calls /\ WriterFrame

ReaderSpec == Init /\ [][ReaderNext]_vars

\* ================================================================= claims
\* the last call was a CacheManager.get / a SessionCache call of that kind
GotIt == lastOp = "get"

C2_NeverSetAbsent == (GotIt /\ lastPre.s = "never") => lastRet = None

\* C2 amended: get of a query that was never passed to set never finds an entry
\* of its own in the persistent cache; it returns None or a value that was set
\* for another query, reached through that query's vector (the semantic tier) or
\* left in the session cache by an earlier such hit; it returns None when
\* nothing has been set.
C2_NeverSetOnlySemantic ==
  (GotIt /\ lastPre.s = "never")
    => /\ lastTier # 2
       /\ lastRet \in stored \cup {None}
       /\ lastTier = 3 => (lastSim.key # lastKey /\ lastRet # None)
       /\ lastTier = 0 => lastRet = None

C2_Witness == GotIt /\ lastPre.s = "never" /\ lastTier = 3 /\ lastRet \in stored

\* ---- C3
\* invalidate's two deletes, applied to the stores
Invalidated(st, key) ==
  [redis |-> persistent_delete(st.redis, key, TRUE), cache |-> session_delete(st.cache, key)]

\* C3 as stated (its first half): the first get(q) after set(q, v) and then
\* invalidate(q) returns None, whatever other queries are cached.
C3_InvalidatedAbsent == (GotIt /\ lastPre.s = "inval") => lastRet = None

\* C3 amended: the first get(q) after set(q, v) and then invalidate(q) finds
\* nothing under q's own fingerprint: it misses both exact tiers and returns
\* None, unless the vector index's nearest neighbour is another query's vector
\* and the persistent cache holds that query's value, which it then returns.
\* And invalidate is idempotent: in every reachable state and for every query
\* (set or not), invalidating twice leaves the stores as invalidating once.
C3_InvalidatedOnlySemantic ==
  /\ (GotIt /\ lastPre.s = "inval")
       => /\ lastTier \in {0, 3}
          /\ lastTier = 0 => lastRet = None
          /\ lastTier = 3 => (lastSim.key # lastKey /\ lastRet \in stored)
  /\ \A q \in Queries :
       LET once == Invalidated([redis |-> redis, cache |-> cache], get_cache_key(q))
       IN /\ Invalidated(once, get_cache_key(q)) = once
          /\ once.redis[get_cache_key(q)] = NoEntry
          /\ get_cache_key(q) \notin CacheKeys(once.cache)

\* the invalidated query is answered with a neighbour's value
C3_Witness == GotIt /\ lastPre.s = "inval" /\ lastTier = 3 /\ lastRet # None

\* ---- C4
\* C4: a get is answered by the semantic tier only through a neighbour whose
\* score satisfies the similarity threshold, and a neighbour outside the
\* threshold is never used to re-query the persistent cache.
C4_ThresholdRespected == (GotIt /\ lastSim # NoSim) => WithinThreshold(lastSim.dist)

\* ---- C5
\* C5: after set(q1, v), a get(q2) answered v by the semantic tier through q1's
\* vector (a neighbour within the threshold), and invalidate(q1), the next
\* get(q2) returns None.
C5_StaleHitCorrected == (GotIt /\ lastPre.sem = "stale") => lastRet = None

\* ---- C6
\* C6: the session cache never holds more than max_size entries.
C6_SizeBounded == Len(cache) <= max_size

\* a new key was set into a full cache
C6_Witness == lastOp = "set" /\ lastFull /\ lastAge = -1 /\ Len(cache) = max_size

\* ---- C7
\* C7: a set of a new key into a cache holding max_size unexpired entries evicts
\* exactly one entry, the least recently used one (recency: last insertion or
\* last get hit); the other entries and the new key stay.
C7_EvictsLeastRecentlyUsed ==
  (lastOp = "set" /\ lastFull /\ lastAge = -1)
    => /\ lastVictim = lastLRU
       /\ Len(cache) = max_size
       /\ lastKey \in CacheKeys(cache)

\* ---- C8
\* C8: a set on a key already present replaces its value and makes it the last
\* entry in eviction order.
C8_SetExistingMovesToEnd ==
  (lastOp = "set" /\ lastAge >= 0) => cache[Len(cache)].key = lastKey

\* ---- C9
\* C9: a get on an entry whose age is at least ttl returns None and removes the
\* entry, and a key enters the cache only by a set of that key.
C9_ExpiredHandled ==
  (GotIt /\ lastAge >= ttl) => (lastRet = None /\ lastKey \notin CacheKeys(cache))

C9_ExpiredNeverHit ==
  [][ /\ C9_ExpiredHandled'
      /\ \A k \in Keys : (k \notin CacheKeys(cache) /\ k \in CacheKeys(cache'))
                           => (lastOp' = "set" /\ lastKey' = k) ]_vars

C9_Witness == GotIt /\ lastAge >= ttl /\ lastRet = None

\* ---- C10
\* C10 as stated: a get hit resets the entry's timestamp to the time of the hit
\* and makes it the most recently used.
C10_HitRefreshes ==
  (GotIt /\ lastRet # None)
    => /\ Entry(cache, lastKey).timestamp = now
       /\ cache[Len(cache)].key = lastKey

\* C10 amended: a get hit makes the entry the most recently used and leaves its
\* timestamp as the last set wrote it (the TTL keeps running from that set).
C10_HitBumpsRecencyOnly ==
  (GotIt /\ lastRet # None)
    => /\ lastKey \in CacheKeys(cache)
       /\ cache[Len(cache)].key = lastKey
       /\ Entry(cache, lastKey).timestamp = now - lastAge
       /\ lastAge >= 0

\* a hit on an entry set earlier, in a cache holding another entry too
C10_Witness == GotIt /\ lastRet # None /\ lastAge > 0 /\ Len(cache) > 1

\* ---- C11
\* C11: every SessionCache.get increments exactly one of three counters: a get
\* on an expired entry counts as an eviction, so it leaves hits and misses as
\* they were (misses counts the gets on absent keys only).
C11_ExpiredGetCountsEviction ==
  [][(lastOp' = "get" /\ lastAge' >= ttl) => (hits' = hits /\ misses' = misses)]_vars

\* ---- C12
\* C12: a search with a vector that a key was added with, made after that key
\* was deleted and not added again, does not return that key.
C12_DeletedNeverReturned ==
  lastCall.op = "search"
    => \A k \in vshist.removed :
         lastCall.vector \in vshist.addedWith[k] => lastSim.key # k

\* ---- C13
\* C13: key_to_id and id_to_key are inverse one-to-one mappings of each other
\* and the ids stored in the index are the ids of id_to_key.
C13_MappingsConsistent ==
  /\ \A k \in DOMAIN key_to_id :
       key_to_id[k] \in DOMAIN id_to_key /\ id_to_key[key_to_id[k]] = k
  /\ \A i \in DOMAIN id_to_key :
       id_to_key[i] \in DOMAIN key_to_id /\ key_to_id[id_to_key[i]] = i
  /\ {index[n].id : n \in 1..Len(index)} = DOMAIN id_to_key

\* ---- C14
\* C14: a search (top_k = 1) with the vector of the add that stored it just
\* before returns a non-empty result whose first element is the key added.
C14_AddedIsBestMatch ==
  (lastCall.op = "search" /\ vshist.lastAdd # NoAdd
     /\ lastCall.vector = vshist.lastAdd.vector)
    => lastSim.key = vshist.lastAdd.key

\* ---- C15
\* C15: between two resets every add takes an id strictly greater than every id
\* taken before it, whether or not earlier keys were deleted or an earlier add
\* failed to store its vector; the ids stored in the index are among the ids
\* taken, each at most once, and below the counter.
C15_IdsNeverReused ==
  /\ \A i, j \in 1..Len(vshist.allocated) :
       i < j => vshist.allocated[i] < vshist.allocated[j]
  /\ \A n \in 1..Len(index) :
       /\ \E i \in 1..Len(vshist.allocated) : vshist.allocated[i] = index[n].id
       /\ index[n].id < next_id
       /\ \A m \in 1..Len(index) : index[m].id = index[n].id => m = n

\* an add stores its vector after an earlier add failed or a key was deleted
C15_Witness ==
  /\ lastCall.op = "add" /\ lastCall.vOk /\ Len(lastCall.vector) = Dim
  /\ Len(vshist.allocated) > 1
  /\ Len(vshist.allocated) > Len(index)

\* ---- C16
\* C16: after reset_index, searches return an empty sequence for every vector,
\* both mappings are empty and the id counter is zero, whatever was stored
\* before.
C16_ResetDiscardsAll ==
  lastCall.op = "reset"
    => /\ \A vector \in Vectors : search(index, id_to_key, vector) = <<>>
       /\ key_to_id = <<>> /\ id_to_key = <<>> /\ index = <<>>
       /\ next_id = 0

\* a reset of a store that held vectors and had handed out ids
C16_Witness == lastCall.op = "reset" /\ lastCall.held > 0 /\ next_id = 0

\* the last call was this call of a CacheManager whose collaborators may fail
FaultySet == lastCall.op = "set"
FaultyGet == lastCall.op = "get"

\* ---- C17
\* C17: a set whose persistent-cache write fails adds no vector for the key (the
\* vector store is left as it was).
C17_NoVectorAfterFailedWrite ==
  [][(FaultySet' /\ ~lastCall'.rOk) => UNCHANGED vsvars]_vars

\* ---- C18
\* C18: after a set whose exact-tier writes succeeded and whose embedding or
\* vector-index write failed, the session cache and the persistent cache hold
\* the value under the query's fingerprint and a get of the query made next
\* returns it from the session cache, whether or not the embedding model works
\* then.
C18_ExactWritesKept ==
  (FaultySet /\ lastCall.rOk /\ (~lastCall.eOk \/ ~lastCall.vOk))
    => LET key == get_cache_key(lastCall.query) IN
       /\ key \in CacheKeys(cache)
       /\ Entry(cache, key).value = lastCall.value
       /\ redis[key].data = pickle_dumps(lastCall.value)
       /\ \A eOk \in BOOLEAN :
            /\ manager_get(lastCall.query, TRUE, eOk, TRUE).ret = lastCall.value
            /\ manager_get(lastCall.query, TRUE, eOk, TRUE).tier = 1

\* a set whose embedding failed, and one whose index write failed
C18_Witness ==
  FaultySet /\ lastCall.rOk /\ (~lastCall.eOk \/ ~lastCall.vOk) /\ Len(cache) > 1

\* ---- C19
\* C19 as stated: a get that misses both exact tiers and whose embedding fails
\* returns None, searches nothing, and leaves the session cache, the persistent
\* cache and the vector store as they were.
C19_EmbeddingFailureChangesNothing ==
  [][(FaultyGet' /\ ~lastCall'.eOk /\ lastTier' = 0)
       => /\ lastRet' = None /\ ~lastCall'.searched
          /\ cache' = cache /\ redis' = redis /\ UNCHANGED vsvars]_vars

\* C19 amended: a get that misses both exact tiers and whose embedding fails
\* returns None, searches nothing, and leaves the persistent cache and the
\* vector store as they were; the session cache is as it was except that an
\* expired entry under the query's fingerprint has been removed by the
\* session-cache lookup, which also counted one miss.
C19_EmbeddingFailureIsMiss ==
  [][(FaultyGet' /\ ~lastCall'.eOk /\ lastTier' = 0)
       => /\ lastRet' = None /\ ~lastCall'.searched /\ lastSim' = NoSim
          /\ cache' = session_delete(cache, lastKey')
          /\ \A i \in 1..Len(cache) :
               cache[i].key = lastKey' => ~is_fresh(now, cache[i].timestamp, ttl)
          /\ misses' = misses + 1 /\ hits' = hits
          /\ redis' = redis /\ UNCHANGED vsvars]_vars

\* such a get, after vectors were stored
C19_Witness ==
  FaultyGet /\ ~lastCall.eOk /\ lastTier = 0 /\ index # <<>> /\ cache # <<>>

\* ---- C20
\* C20: when no set or invalidate call is in progress, the session cache and
\* the persistent cache are as some serial order of the calls made leaves them;
\* in particular a fingerprint the session cache holds has the same value in
\* the persistent cache (no entry expires in these behaviours).
C20_TiersAgreeWhenQuiet ==
  (\A t \in Threads : threads[t] = ThreadIdle)
    => \A i \in 1..Len(cache) :
         redis[cache[i].key].data = pickle_dumps(cache[i].value)

\* ---- C24
\* C24: a get stores a value nowhere but in the session cache, and only when it
\* hits in tier 2 or tier 3: the value returned is then stored under the
\* fingerprint of the query looked up, with the time of the get, and no entry
\* is stored under any other fingerprint (the neighbour's included); a tier-1
\* hit searches nothing and is whatever Redis and the embedding model do; no
\* get changes the persistent cache or the vector store.
C24_GetWritesOnlyBackfill ==
  [][FaultyGet' =>
       /\ redis' = redis /\ UNCHANGED vsvars
       /\ \A i \in 1..Len(cache') :
            \/ \E j \in 1..Len(cache) : cache[j] = cache'[i]
            \/ /\ lastTier' \in {2, 3}
               /\ cache'[i] = [key |-> lastKey', value |-> lastRet', timestamp |-> now]
       /\ lastTier' \in {2, 3} =>
            /\ lastKey' \in CacheKeys(cache')
            /\ Entry(cache', lastKey') =
                 [key |-> lastKey', value |-> lastRet', timestamp |-> now]
       /\ lastTier' = 1 =>
            /\ ~lastCall'.searched
            /\ \A a, b, c \in BOOLEAN :
                 manager_get(lastCall'.query, a, b, c)
                   = manager_get(lastCall'.query, TRUE, TRUE, TRUE)]_vars

\* a tier-3 hit through another fingerprint, which the session cache does not hold
C24_Witness ==
  /\ FaultyGet /\ lastTier = 3 /\ lastSim.key # lastKey
  /\ lastKey \in CacheKeys(cache) /\ lastSim.key \notin CacheKeys(cache)

\* ---- C25
\* C25: a get(q) that begins after invalidate(q) has returned, no set(q, ..)
\* having been in progress since that invalidate began, finds nothing under q's
\* fingerprint in the session cache or the persistent cache, whatever gets ran
\* beside the invalidate (leaving aside what the semantic tier answers, and has
\* since stored under q, through another query's fingerprint).
C25_InvalidationNotUndone ==
  (GotIt /\ lastCall.after) => lastTier \notin {1, 2}

\* ---- C21
\* C21: with subprocess isolation and every worker so far ended normally, a
\* search answers what the search of an inline store answers after the same
\* calls (an added key is found, a deleted or reset one is not).
C21_IsolatedAsInline ==
  (use_subprocess /\ lastCall.op = "search" /\ twin.clean)
    => lastSim = (IF lastCall.expected = <<>> THEN NoSim ELSE lastCall.expected[1])

\* ---- C22
\* C22: an isolated operation whose worker was terminated after its timeout or
\* exited abnormally is reported to the caller as failed.
C22_FailureReported ==
  (use_subprocess /\ lastCall.op \in {"add", "delete", "search", "reset"}
     /\ lastCall.outcome \in {"timeout", "crash"})
    => lastCall.raised

\* ---- C23
\* C23: an add or a search with a vector whose length is not the configured
\* dimension raises to its caller (and changes nothing in the store).
C23_MismatchRaises ==
  (lastCall.op \in {"add", "search"} /\ Len(lastCall.vector) # Dim) => lastCall.raised

====
